---- MODULE Spec2Model ----
(***************************************************************************)
(* Model of one virtual channel of the message proxy (mproxy/vchannel.py): *)
(* a bounded asyncio queue (mproxy/queues.py), the delivery task created   *)
(* by activate, and the retry loop that tenacity wraps around              *)
(* worker.operate.  All coroutines run on one event loop, so every action  *)
(* is the code executed between two suspension points.  Tasks that are     *)
(* ready to run may be run in any order.  Messages are numbered in the     *)
(* order in which the queue accepted them.  Spec drives the channel through *)
(* its own methods; AppSpec drives it through the application of           *)
(* mproxy/server.py: its life cycle and its two HTTP handlers; UnitSpec    *)
(* calls the functions that take no state of the channel (the parsing of   *)
(* a retry hint, the wait policy, Telegram.operate) on their own; LiveSpec  *)
(* is Spec with the event loop running every task that is ready; PairSpec  *)
(* runs two channels of one collection side by side.                       *)
(***************************************************************************)
EXTENDS Integers, Sequences, FiniteSets, TLC

\* ------------------------------------------------------------------ bounds
QueueSize == 2
MaxRetryAttempts == 2
MaxMessages == 3
MaxTasks == 2
MaxAttemptNumber == 8
MaxDelay == 12
MaxClock == 4
MaxTime == 3
MaxCollectionMessages == 2

\* --------------------------------------------------------------- constants
MIN_RETRY_AFTER == 5
MAX_RETRY_AFTER == 7200
RETRY_BASE == 4
DEFAULT_RETRY_AFTER == 120
None == 0

VARIABLES
    queue,              \* AIOQueue.queue: the buffered messages, oldest first
    queue_size,         \* the maxsize the asyncio.Queue was built with
    retry_attempts,     \* VirtualChannel._retry_attempts
    task,               \* VirtualChannel._task: None or the id of a task
    tasks,              \* the asyncio tasks that exist, by id
    messages_send,      \* VirtualChannel._messages_send
    messages_rejected,  \* VirtualChannel._messages_rejected
    last_error,         \* VirtualChannel._last_error (its reason), or "None"
    accepted,           \* number of messages put on the queue so far
    order,              \* messages in the order of their first operate call
    charged,            \* worker.prepare() scopes entered and not yet left
    event,              \* the call or loop step that led to this state: the
                        \* operation, and the error the call raised, what
                        \* operate did, or where the cancellation arrived
    maintenance,        \* Server.app[MAINTENANCE_KEY]
    idle,               \* Server.idle
    inited,             \* Application.inited
    pc,                 \* where the runner of the web application is
    request,            \* the last HTTP request the application handled
    response,           \* the last HTTP response the application gave
    call,               \* the last call of a function of the package on
                        \* its own: its arguments and what it gave
    channels,           \* VCCollection.channels: the channels by name, each
                        \* with its task, its counters and its last_error
    queues              \* the queue objects the collection built, by id

vars == <<queue, queue_size, retry_attempts, task, tasks, messages_send,
          messages_rejected, last_error, accepted, order, charged, event,
          maintenance, idle, inited, pc, request, response, call,
          channels, queues>>

\* the state of the channel and of the tasks it created
channel == <<queue, queue_size, retry_attempts, task, tasks, messages_send,
             messages_rejected, last_error, accepted, order, charged>>

\* the state of the application around the channel
server == <<maintenance, idle, inited, pc, request, response>>

\* the channels of the collection and their queues
collection == <<channels, queues>>

\* the names of the channels of a collection of two
Collection == {"TestChannel", "OtherChannel"}

Messages == 1..MaxMessages
TaskIds == 1..MaxTasks

\* delay carried by a WorkerAwaitError in the runs of the channel: a number,
\* or a text that is neither a number nor a date
Delays == {[kind |-> "int", v |-> 0], [kind |-> "int", v |-> 7],
           [kind |-> "str", text |-> <<"s", "o", "o", "n">>]}

\* what worker.operate can do when its request completes
Outcomes == {"return", "WorkerExecutionError", "WorkerAwaitError", "Exception"}

Min(a, b) == IF a <= b THEN a ELSE b

\* ------------------------------------------------------------------- queue
\* a full() that is off by one: lets one message more in
full_off_by_one(q, maxsize) == Len(q) > maxsize

\* asyncio.Queue.full() for maxsize > 0
full(q, maxsize) == Len(q) >= maxsize

\* a put that makes room on a full queue by dropping the oldest message
put_nowait_evicts(q, m, maxsize) ==
    IF full(q, maxsize)
    THEN [raised |-> TRUE, queue |-> Tail(q)]
    ELSE [raised |-> FALSE, queue |-> Append(q, m)]

\* asyncio.Queue.put_nowait as add_task uses it
put_nowait(q, m, maxsize) ==
    IF full(q, maxsize)
    THEN [raised |-> TRUE, queue |-> q]
    ELSE [raised |-> FALSE, queue |-> Append(q, m)]

\* a get that returns the newest message instead of the oldest
get_task_newest(q) ==
    [message |-> q[Len(q)], queue |-> SubSeq(q, 1, Len(q) - 1)]

\* the item asyncio.Queue.get returns from a non-empty queue
get_task(q) == [message |-> Head(q), queue |-> Tail(q)]

\* ----------------------------------------------------------------- backoff
\* the decimal digits: Digits[d + 1] is the character of the digit d
Digits == <<"0", "1", "2", "3", "4", "5", "6", "7", "8", "9">>

IsDigit(c) == \E d \in 1..Len(Digits) : Digits[d] = c

\* ticks of the clock in a second: datetime.now() reads fractions of a
\* second, the text of a date names a whole second
TicksPerSecond == 2

\* str(k) of an integer k, as a sequence of characters
RECURSIVE str(_)
str(k) ==
    IF k < 0 THEN <<"-">> \o str(-k)
    ELSE IF k < 10 THEN <<Digits[k + 1]>>
    ELSE Append(str(k \div 10), Digits[(k % 10) + 1])

\* a reading of digits that takes the last digit for the number
digits_value_last(s) ==
    IF s = <<>> THEN 0 ELSE CHOOSE d \in 0..9 : Digits[d + 1] = s[Len(s)]

\* the number a sequence of digits writes
RECURSIVE digits_value(_)
digits_value(s) ==
    IF s = <<>> THEN 0
    ELSE 10 * digits_value(SubSeq(s, 1, Len(s) - 1))
         + (CHOOSE d \in 0..9 : Digits[d + 1] = s[Len(s)])

\* int(x): a float is truncated; a text must be decimal digits after an
\* optional sign, or ValueError is raised; the text of a date is no number
int(x) ==
    CASE x.kind = "int" -> [raised |-> FALSE, value |-> x.v]
      [] x.kind = "float" -> [raised |-> FALSE, value |-> x.v]
      [] x.kind = "str" ->
            LET signed == x.text # <<>> /\ x.text[1] \in {"+", "-"}
                unsigned == IF signed THEN Tail(x.text) ELSE x.text
            IN  IF \/ unsigned = <<>>
                   \/ \E k \in 1..Len(unsigned) : ~IsDigit(unsigned[k])
                THEN [raised |-> TRUE, value |-> 0]
                ELSE [raised |-> FALSE,
                      value |-> IF signed /\ x.text[1] = "-"
                                THEN -digits_value(unsigned)
                                ELSE digits_value(unsigned)]
      [] OTHER -> [raised |-> TRUE, value |-> 0]

\* math.ceil of a number of ticks, in seconds
ceil(ticks) == -((-ticks) \div TicksPerSecond)

\* a calculate_delay that grows linearly with the attempt number
calculate_delay_linear(rate) == MIN_RETRY_AFTER + RETRY_BASE * rate

\* WaitExponentialOrByRetryAfterValue.calculate_delay (integers do not raise
\* OverflowError)
calculate_delay(rate) == MIN_RETRY_AFTER + RETRY_BASE ^ rate

\* bool(exception.delay) taken for true whatever the delay
truthy_always(delay) == TRUE

\* bool(exception.delay)
truthy(delay) ==
    CASE delay.kind = "int" -> delay.v # 0
      [] delay.kind = "float" -> delay.v # 0 \/ delay.tenths # 0
      [] delay.kind = "str" -> delay.text # <<>>
      [] OTHER -> TRUE

\* get_delay_in_seconds at the clock reading now (in ticks): strptime reads
\* the text of a date, in the GMT form against datetime.now() and in the
\* UTC and offset forms against datetime.now(timezone.utc), which read the
\* same instant; for every other str(delay) strptime raises ValueError and
\* int(delay) decides
get_delay_in_seconds(delay, now) ==
    IF delay.kind = "date"
    THEN [raised |-> FALSE,
          value |-> ceil(delay.at * TicksPerSecond - now)]
    ELSE int(delay)

\* a wait that returns the hint without the bound
wait_unbounded(attempt_number, delay, now) ==
    LET default == calculate_delay(attempt_number)
        outer == get_delay_in_seconds(delay, now)
    IN  IF truthy(delay) /\ outer.raised
        THEN [raised |-> TRUE, value |-> 0]
        ELSE [raised |-> FALSE,
              value |-> IF truthy(delay) /\ outer.value >= 0
                        THEN outer.value
                        ELSE Min(default, MAX_RETRY_AFTER)]

\* a wait that takes the hint only when it is longer than the default
wait_longest(attempt_number, delay, now) ==
    LET default == calculate_delay(attempt_number)
        outer == get_delay_in_seconds(delay, now)
    IN  IF truthy(delay) /\ outer.raised
        THEN [raised |-> TRUE, value |-> 0]
        ELSE [raised |-> FALSE,
              value |-> Min(IF truthy(delay) /\ outer.value >= default
                            THEN outer.value ELSE default,
                            MAX_RETRY_AFTER)]

\* WaitExponentialOrByRetryAfterValue.__call__ at the clock reading now: the
\* ValueError of get_delay_in_seconds is not caught
wait(attempt_number, delay, now) ==
    LET default == calculate_delay(attempt_number)
        outer == get_delay_in_seconds(delay, now)
    IN  IF truthy(delay) /\ outer.raised
        THEN [raised |-> TRUE, value |-> 0]
        ELSE [raised |-> FALSE,
              value |-> Min(IF truthy(delay) /\ outer.value >= 0
                            THEN outer.value ELSE default,
                            MAX_RETRY_AFTER)]

\* a stop condition that allows one attempt more
stop_after_attempt_late(attempt_number, max_attempt_number) ==
    attempt_number > max_attempt_number

\* tenacity.stop_after_attempt
stop_after_attempt(attempt_number, max_attempt_number) ==
    attempt_number >= max_attempt_number

\* a retry predicate that also retries terminal errors
retry_if_worker_error(exc) ==
    exc \in {"WorkerAwaitError", "WorkerExecutionError"}

\* tenacity.retry_if_exception_type(WorkerAwaitError)
retry_if_exception_type(exc) == exc = "WorkerAwaitError"

\* ------------------------------------------------------------ the channel
NoTask == [pc |-> "absent", must_cancel |-> FALSE, message |-> None,
           attempt |-> 0, wait |-> 0]

done(i) == tasks[i].pc = "done"

is_running == task # None /\ ~done(task)

\* the delivery loops that have not terminated yet
Live == {i \in TaskIds : tasks[i].pc \notin {"absent", "done"}}

\* the messages that delivery loops hold (taken and not yet settled)
InFlight == {tasks[i].message : i \in Live} \ {None}

\* except clauses where a WorkerAwaitError is re-raised like an unknown error
except_clause_await_raises(exc) ==
    CASE exc = "CancelledError" ->
            [reason |-> "Worker was stopped", rejected |-> 0, exits |-> TRUE]
      [] exc = "WorkerExecutionError" ->
            [reason |-> exc, rejected |-> 1, exits |-> FALSE]
      [] OTHER ->
            [reason |-> exc, rejected |-> 1, exits |-> TRUE]

\* except clauses where a cancellation counts the message as rejected
except_clause_cancel_rejects(exc) ==
    CASE exc = "CancelledError" ->
            [reason |-> "Worker was stopped", rejected |-> 1, exits |-> TRUE]
      [] exc \in {"WorkerExecutionError", "WorkerAwaitError"} ->
            [reason |-> exc, rejected |-> 1, exits |-> FALSE]
      [] OTHER ->
            [reason |-> exc, rejected |-> 1, exits |-> TRUE]

\* except clauses where an unknown exception is logged and not re-raised
except_clause_swallows(exc) ==
    CASE exc = "CancelledError" ->
            [reason |-> "Worker was stopped", rejected |-> 0, exits |-> TRUE]
      [] OTHER ->
            [reason |-> exc, rejected |-> 1, exits |-> FALSE]

\* except clauses without the one for CancelledError: the cancellation
\* reaches the clause for Exception
except_clause_no_cancel(exc) ==
    CASE exc \in {"WorkerExecutionError", "WorkerAwaitError"} ->
            [reason |-> exc, rejected |-> 1, exits |-> FALSE]
      [] OTHER ->
            [reason |-> exc, rejected |-> 1, exits |-> TRUE]

\* except clauses that do not count a WorkerExecutionError as a rejection
except_clause_uncounted(exc) ==
    CASE exc = "CancelledError" ->
            [reason |-> "Worker was stopped", rejected |-> 0, exits |-> TRUE]
      [] exc = "WorkerExecutionError" ->
            [reason |-> exc, rejected |-> 0, exits |-> FALSE]
      [] exc = "WorkerAwaitError" ->
            [reason |-> exc, rejected |-> 1, exits |-> FALSE]
      [] OTHER ->
            [reason |-> exc, rejected |-> 1, exits |-> TRUE]

\* the except clauses of the delivery loop, by the exception that reaches them
except_clause(exc) ==
    CASE exc = "CancelledError" ->
            [reason |-> "Worker was stopped", rejected |-> 0, exits |-> TRUE]
      [] exc = "WorkerExecutionError" ->
            [reason |-> exc, rejected |-> 1, exits |-> FALSE]
      [] exc = "WorkerAwaitError" ->
            [reason |-> exc, rejected |-> 1, exits |-> FALSE]
      [] OTHER ->
            [reason |-> exc, rejected |-> 1, exits |-> TRUE]

\* a channel as VirtualChannel.__init__ leaves it
NoChannel == [task |-> "None", cancelled |-> 0, accepted |-> 0,
              messages_send |-> 0, messages_rejected |-> 0,
              last_error |-> "None"]

\* no request was received yet
NoRequest == [path |-> "", v_channel |-> "", message |-> {}]

\* no function was called on its own yet
NoCall == [fn |-> ""]

\* no request was answered yet
NoResponse == [status |-> 0, text |-> "", retry_after |-> None]

Init ==
    /\ queue = <<>>
    /\ queue_size = QueueSize
    /\ retry_attempts \in {1, MaxRetryAttempts}
    /\ task = None
    /\ tasks = [i \in TaskIds |-> NoTask]
    /\ messages_send = 0
    /\ messages_rejected = 0
    /\ last_error = "None"
    /\ accepted = 0
    /\ order = <<>>
    /\ charged = 0
    /\ event = [op |-> "init", res |-> ""]
    /\ maintenance = TRUE
    /\ idle = TRUE
    /\ inited = FALSE
    /\ pc = "constructed"
    /\ request = NoRequest
    /\ response = NoResponse
    /\ call = NoCall
    /\ channels = [c \in Collection |-> NoChannel]
    /\ queues = [q \in Collection |-> <<>>]

\* VirtualChannel.add_message -> AIOQueue.add_task
add_message ==
    /\ accepted < MaxMessages \/ full(queue, queue_size)
    /\ LET m == accepted + 1
           put == put_nowait(queue, m, queue_size)
       IN  /\ queue' = put.queue
           /\ accepted' = IF put.raised THEN accepted ELSE m
           /\ event' = [op |-> "add_task",
                        res |-> IF put.raised THEN "TemporaryUnawailableError"
                                ELSE ""]
    /\ UNCHANGED <<queue_size, charged, retry_attempts, task, tasks,
                   messages_send, messages_rejected, last_error, order>>

\* asyncio.create_task: a new task object; the finished task that _task
\* referred to is dropped with the reference
create_task(ts, old) ==
    LET kept == [i \in TaskIds |-> IF i = old THEN NoTask ELSE ts[i]]
        new == CHOOSE i \in TaskIds :
                  /\ kept[i].pc = "absent"
                  /\ \A j \in TaskIds : j < i => kept[j].pc # "absent"
    IN  [id |-> new, tasks |-> [kept EXCEPT ![new].pc = "new"]]

\* an activate that resets the statistics before it looks at the task
activate_resets_first ==
    IF task # None /\ ~done(task)
    THEN /\ event' = [op |-> "activate", res |-> "RequestExecutionError"]
         /\ messages_send' = 0
         /\ messages_rejected' = 0
         /\ last_error' = "None"
         /\ UNCHANGED <<queue, queue_size, charged, retry_attempts, task,
                        tasks, accepted, order>>
    ELSE /\ \E i \in TaskIds : i = task \/ tasks[i].pc = "absent"
         /\ LET created == create_task(tasks, task) IN
               /\ tasks' = created.tasks
               /\ task' = created.id
         /\ messages_send' = 0
         /\ messages_rejected' = 0
         /\ last_error' = "None"
         /\ event' = [op |-> "activate", res |-> ""]
         /\ UNCHANGED <<queue, queue_size, charged, retry_attempts, accepted,
                        order>>

\* an activate that leaves the statistics of the previous run in place
activate_keeps_statistics ==
    IF task # None /\ ~done(task)
    THEN /\ event' = [op |-> "activate", res |-> "RequestExecutionError"]
         /\ UNCHANGED <<queue, queue_size, charged, retry_attempts, task,
                        tasks, messages_send, messages_rejected, last_error,
                        accepted, order>>
    ELSE /\ \E i \in TaskIds : i = task \/ tasks[i].pc = "absent"
         /\ LET created == create_task(tasks, task) IN
               /\ tasks' = created.tasks
               /\ task' = created.id
         /\ event' = [op |-> "activate", res |-> ""]
         /\ UNCHANGED <<queue, queue_size, charged, retry_attempts,
                        messages_send, messages_rejected, last_error, accepted,
                        order>>

\* an activate that takes a finished delivery task for a running one
activate_once ==
    IF task # None
    THEN /\ event' = [op |-> "activate", res |-> "RequestExecutionError"]
         /\ UNCHANGED <<queue, queue_size, charged, retry_attempts, task,
                        tasks, messages_send, messages_rejected, last_error,
                        accepted, order>>
    ELSE /\ \E i \in TaskIds : i = task \/ tasks[i].pc = "absent"
         /\ LET created == create_task(tasks, task) IN
               /\ tasks' = created.tasks
               /\ task' = created.id
         /\ messages_send' = 0
         /\ messages_rejected' = 0
         /\ last_error' = "None"
         /\ event' = [op |-> "activate", res |-> ""]
         /\ UNCHANGED <<queue, queue_size, charged, retry_attempts, accepted,
                        order>>

\* VirtualChannel.activate
activate ==
    IF task # None /\ ~done(task)
    THEN /\ event' = [op |-> "activate", res |-> "RequestExecutionError"]
         /\ UNCHANGED <<queue, queue_size, charged, retry_attempts, task,
                        tasks, messages_send, messages_rejected, last_error,
                        accepted, order>>
    ELSE /\ \E i \in TaskIds : i = task \/ tasks[i].pc = "absent"
         /\ LET created == create_task(tasks, task) IN
               /\ tasks' = created.tasks
               /\ task' = created.id
         /\ messages_send' = 0
         /\ messages_rejected' = 0
         /\ last_error' = "None"
         /\ event' = [op |-> "activate", res |-> ""]
         /\ UNCHANGED <<queue, queue_size, charged, retry_attempts, accepted,
                        order>>

\* a cancel() that never requests the cancellation
cancel_forgotten(t) == IF t.pc = "done" THEN NoTask ELSE t

\* Task.cancel(): a finished task is left alone; in any other the awaited
\* future is cancelled and CancelledError is thrown into the coroutine when
\* the event loop next runs it, so its retry state is never read again
cancel(t) ==
    IF t.pc = "done" THEN NoTask
    ELSE [t EXCEPT !.must_cancel = TRUE, !.attempt = 0, !.wait = 0]

\* a deactivate that fails when the channel has no delivery task
deactivate_raises_when_idle ==
    IF task = None
    THEN /\ event' = [op |-> "deactivate", res |-> "RequestExecutionError"]
         /\ UNCHANGED <<queue, queue_size, charged, retry_attempts, task,
                        tasks, messages_send, messages_rejected, last_error,
                        accepted, order>>
    ELSE /\ tasks' = [tasks EXCEPT ![task] = cancel(tasks[task])]
         /\ task' = None
         /\ event' = [op |-> "deactivate", res |-> ""]
         /\ UNCHANGED <<queue, queue_size, charged, retry_attempts,
                        messages_send, messages_rejected, last_error, accepted,
                        order>>

\* a deactivate that also resets the statistics
deactivate_resets ==
    IF task = None
    THEN /\ event' = [op |-> "deactivate", res |-> "None"]
         /\ UNCHANGED <<queue, queue_size, charged, retry_attempts, task,
                        tasks, messages_send, messages_rejected, last_error,
                        accepted, order>>
    ELSE /\ tasks' = [tasks EXCEPT ![task] = cancel(tasks[task])]
         /\ task' = None
         /\ messages_send' = 0
         /\ messages_rejected' = 0
         /\ event' = [op |-> "deactivate", res |-> ""]
         /\ UNCHANGED <<queue, queue_size, charged, retry_attempts, last_error,
                        accepted, order>>

\* a deactivate that empties the queue of the channel it stops
deactivate_flushes ==
    IF task = None
    THEN /\ event' = [op |-> "deactivate", res |-> "None"]
         /\ UNCHANGED <<queue, queue_size, charged, retry_attempts, task,
                        tasks, messages_send, messages_rejected, last_error,
                        accepted, order>>
    ELSE /\ tasks' = [tasks EXCEPT ![task] = cancel(tasks[task])]
         /\ task' = None
         /\ queue' = <<>>
         /\ event' = [op |-> "deactivate", res |-> ""]
         /\ UNCHANGED <<queue_size, charged, retry_attempts, messages_send,
                        messages_rejected, last_error, accepted, order>>

\* VirtualChannel.deactivate
deactivate ==
    IF task = None
    THEN /\ event' = [op |-> "deactivate", res |-> "None"]
         /\ UNCHANGED <<queue, queue_size, charged, retry_attempts, task,
                        tasks, messages_send, messages_rejected, last_error,
                        accepted, order>>
    ELSE /\ tasks' = [tasks EXCEPT ![task] = cancel(tasks[task])]
         /\ task' = None
         /\ event' = [op |-> "deactivate", res |-> ""]
         /\ UNCHANGED <<queue, queue_size, charged, retry_attempts,
                        messages_send, messages_rejected, last_error, accepted,
                        order>>

\* VirtualChannel.get_last_error(clear): the error is returned, and is
\* dropped when clear is true
get_last_error(clear) ==
    /\ last_error' = IF clear THEN "None" ELSE last_error
    /\ event' = [op |-> "get_last_error", res |-> last_error]
    /\ UNCHANGED <<queue, queue_size, charged, retry_attempts, task, tasks,
                   messages_send, messages_rejected, accepted, order>>

\* ------------------------------------------------------ the delivery loop
\* The top of the while loop, run by task i: get_task returns at once when
\* a message is queued and execute calls operate on it (the first attempt);
\* on an empty queue the task waits in queue.get().
next_message(i, op, res) ==
    IF queue = <<>>
    THEN /\ tasks' = [tasks EXCEPT ![i] = [NoTask EXCEPT !.pc = "take"]]
         /\ event' = [op |-> op, res |-> res]
         /\ UNCHANGED <<queue, order>>
    ELSE LET got == get_task(queue) IN
         /\ queue' = got.queue
         /\ tasks' = [tasks EXCEPT ![i] = [NoTask EXCEPT !.pc = "operate",
                                             !.message = got.message,
                                             !.attempt = 1]]
         /\ order' = Append(order, got.message)
         /\ event' = [op |-> op, res |-> res]

\* the coroutine of task i returns or raises: the task is finished; nothing
\* refers to it any more unless _task does
finish(i) == [tasks EXCEPT ![i] = IF task = i THEN [NoTask EXCEPT !.pc = "done"]
                                  ELSE NoTask]

\* async with worker.prepare(): the scope of the prepared worker is entered
aenter(held) == held + 1

\* a scope that a cancellation leaves open
aexit_not_on_cancel(held, exc) ==
    IF exc = "CancelledError" THEN held ELSE held - 1

\* the block of async with worker.prepare() is left, by the break after a
\* cancellation or by the exception that is raised again
aexit(held, exc) == held - 1

\* except clauses that keep the first error the loop recorded
handle_keeps_first(i, exc, op, res) ==
    LET h == except_clause(exc) IN
        /\ last_error' = IF last_error = "None" THEN h.reason ELSE last_error
        /\ messages_rejected' = messages_rejected + h.rejected
        /\ IF h.exits
           THEN /\ tasks' = finish(i)
                /\ charged' = aexit(charged, exc)
                /\ event' = [op |-> op, res |-> res]
                /\ UNCHANGED <<queue, order>>
           ELSE /\ next_message(i, op, res)
                /\ UNCHANGED charged
        /\ UNCHANGED <<queue_size, retry_attempts, task, messages_send,
                       accepted>>

\* an exception leaves execute and reaches the except clauses of the loop
handle(i, exc, op, res) ==
    LET h == except_clause(exc) IN
        /\ last_error' = h.reason
        /\ messages_rejected' = messages_rejected + h.rejected
        /\ IF h.exits
           THEN /\ tasks' = finish(i)
                /\ charged' = aexit(charged, exc)
                /\ event' = [op |-> op, res |-> res]
                /\ UNCHANGED <<queue, order>>
           ELSE /\ next_message(i, op, res)
                /\ UNCHANGED charged
        /\ UNCHANGED <<queue_size, retry_attempts, task, messages_send,
                       accepted>>

\* the first step of the task: async with worker.prepare(), then the loop
start(i) ==
    /\ tasks[i].pc = "new"
    /\ ~tasks[i].must_cancel
    /\ charged' = aenter(charged)
    /\ next_message(i, "start", "")
    /\ UNCHANGED <<queue_size, retry_attempts, task, messages_send,
                   messages_rejected, last_error, accepted>>
    /\ UNCHANGED <<server, call, collection>>

\* a queue.get() that is woken only by the put that fills the queue
take_when_full(i) ==
    /\ tasks[i].pc = "take"
    /\ ~tasks[i].must_cancel
    /\ full(queue, queue_size)
    /\ next_message(i, "take", "")
    /\ UNCHANGED <<queue_size, charged, retry_attempts, task, messages_send,
                   messages_rejected, last_error, accepted>>
    /\ UNCHANGED <<server, call, collection>>

\* queue.get() is woken by a put
take(i) ==
    /\ tasks[i].pc = "take"
    /\ ~tasks[i].must_cancel
    /\ queue # <<>>
    /\ next_message(i, "take", "")
    /\ UNCHANGED <<queue_size, charged, retry_attempts, task, messages_send,
                   messages_rejected, last_error, accepted>>
    /\ UNCHANGED <<server, call, collection>>

\* an operate that retries by putting the message back at the end of the
\* queue and going on with the message at its head
operate_requeues(i, exc, delay) ==
    /\ tasks[i].pc = "operate"
    /\ ~tasks[i].must_cancel
    /\ UNCHANGED <<server, call, collection>>
    /\ LET n == tasks[i].attempt
           w == wait(n, delay, 0)
           got == get_task(Append(queue, tasks[i].message))
       IN  IF exc = "return"
           THEN /\ messages_send' = messages_send + 1
                /\ next_message(i, "operate", exc)
                /\ UNCHANGED <<queue_size, charged, retry_attempts, task,
                               messages_rejected, last_error, accepted>>
           ELSE IF ~retry_if_exception_type(exc)
                   \/ stop_after_attempt(n, retry_attempts)
           THEN handle(i, exc, "operate", exc)
           ELSE IF w.raised
           THEN handle(i, "ValueError", "operate", exc)
           ELSE /\ queue' = got.queue
                /\ tasks' = [tasks EXCEPT ![i].message = got.message]
                /\ order' = Append(order, got.message)
                /\ event' = [op |-> "operate", res |-> exc]
                /\ UNCHANGED <<queue_size, charged, retry_attempts, task,
                               messages_send, messages_rejected, last_error,
                               accepted>>

\* worker.operate finishes: it returns, or raises exc (carrying delay when
\* exc is a WorkerAwaitError); tenacity's iter decides between the result,
\* a sleep and a re-raise; no delay of Delays is a date, so that the reading
\* of the clock is of no account
operate(i, exc, delay) ==
    /\ tasks[i].pc = "operate"
    /\ ~tasks[i].must_cancel
    /\ UNCHANGED <<server, call, collection>>
    /\ LET n == tasks[i].attempt
           w == wait(n, delay, 0)
       IN  IF exc = "return"
           THEN /\ messages_send' = messages_send + 1
                /\ next_message(i, "operate", exc)
                /\ UNCHANGED <<queue_size, charged, retry_attempts, task,
                               messages_rejected, last_error, accepted>>
           ELSE IF ~retry_if_exception_type(exc)
                   \/ stop_after_attempt(n, retry_attempts)
           THEN handle(i, exc, "operate", exc)
           ELSE IF w.raised
           THEN handle(i, "ValueError", "operate", exc)
           ELSE /\ tasks' = [tasks EXCEPT ![i].pc = "sleep",
                                          ![i].wait = w.value]
                /\ event' = [op |-> "operate", res |-> exc]
                /\ UNCHANGED <<queue, queue_size, charged, retry_attempts,
                               task, messages_send, messages_rejected,
                               last_error, accepted, order>>

\* the sleep between two attempts ends and operate is called again
wake(i) ==
    /\ tasks[i].pc = "sleep"
    /\ ~tasks[i].must_cancel
    /\ tasks' = [tasks EXCEPT ![i].pc = "operate", ![i].attempt = @ + 1,
                              ![i].wait = 0]
    /\ event' = [op |-> "wake", res |-> ""]
    /\ UNCHANGED <<server, call, collection>>
    /\ UNCHANGED <<queue, queue_size, charged, retry_attempts, task,
                   messages_send, messages_rejected, last_error, accepted,
                   order>>

\* the event loop runs a task that was cancelled: CancelledError is thrown
\* at the await it is suspended on; a task never started ends at once
cancelled(i) ==
    /\ tasks[i].must_cancel
    /\ UNCHANGED <<server, call, collection>>
    /\ IF tasks[i].pc = "new"
       THEN /\ tasks' = finish(i)
            /\ event' = [op |-> "cancelled", res |-> "new"]
            /\ UNCHANGED <<queue, queue_size, charged, retry_attempts, task,
                           messages_send, messages_rejected, last_error,
                           accepted, order>>
       ELSE handle(i, "CancelledError", "cancelled", tasks[i].pc)

assign_worker(i) ==
    \/ start(i)
    \/ take(i)
    \/ \E exc \in Outcomes, delay \in Delays :
          /\ exc # "WorkerAwaitError" => delay = [kind |-> "int", v |-> 0]
          /\ operate(i, exc, delay)
    \/ wake(i)
    \/ cancelled(i)

\* the channel driven through its own methods, without the application
Next ==
    \/ add_message /\ UNCHANGED <<server, call, collection>>
    \/ activate /\ UNCHANGED <<server, call, collection>>
    \/ deactivate /\ UNCHANGED <<server, call, collection>>
    \/ \E clear \in BOOLEAN :
          get_last_error(clear) /\ UNCHANGED <<server, call, collection>>
    \/ \E i \in TaskIds : assign_worker(i)

Spec == Init /\ [][Next]_vars

\* Task.cancel() makes the task ready to run, and the event loop runs every
\* task that is ready
FairSpec == Spec /\ \A i \in TaskIds : WF_vars(cancelled(i))

\* the event loop runs every delivery task that is ready: a task that holds
\* a message is ready when operate ends or the sleep is over, a task that
\* waits in queue.get() when a message is queued
LiveSpec == Spec /\ \A i \in TaskIds : WF_vars(assign_worker(i))

\* --------------------------------------------------------- the application
\* the names of the configured channels: the model has the one channel
Channels == {"TestChannel"}

\* channel names a request can carry: both match the pattern of the route
Names == {"TestChannel", "no_such"}

\* the message parameter of a request: absent, empty or a text
Params == {{}, {""}, {"hello"}}

\* VCCollection.is_channel
is_channel(name) == name \in Channels

\* HTTPParameter.extract_param(name, request) for a required parameter
extract_param(param) ==
    IF param = {}
    THEN [raised |-> TRUE, value |-> ""]
    ELSE [raised |-> FALSE, value |-> CHOOSE v \in param : TRUE]

\* web.json_response(data, status=status): text stands for the message the
\* document carries
json_response(data, text, status) ==
    [status |-> status, text |-> text, retry_after |-> None, json |-> data]

\* a middleware that answers a validation error like a server error
handle_errors_middleware_500(exc, text) ==
    CASE exc = "TemporaryUnawailableError" ->
            json_response([success |-> FALSE, error |-> text], text, 503)
      [] OTHER ->
            json_response([success |-> FALSE, error |-> text], text, 500)

\* handle_errors_middleware: the response for an exception the handler
\* raised; a web.HTTPException is raised again and the framework answers
\* with the exception itself, which is a response
handle_errors_middleware(exc, text) ==
    CASE exc = "RequestParameterError" ->
            json_response([success |-> FALSE, error |-> text], text, 422)
      [] exc = "TemporaryUnawailableError" ->
            json_response([success |-> FALSE, error |-> text], text, 503)
      [] exc = "HTTPNotFound" ->
            [status |-> 404, text |-> text, retry_after |-> None]
      [] OTHER ->
            json_response([success |-> FALSE, error |-> text], text, 500)

\* web.json_response({'status': True})
Accepted == json_response([status |-> TRUE], "status: True", 200)

\* a send_message that checks the parameters only: it hands the message to
\* the queue whether or not the channel is running
send_message_unchecked(v_channel, message) ==
    LET got == extract_param(message)
        exc == IF got.raised \/ ~is_channel(v_channel) \/ got.value = ""
               THEN "RequestParameterError" ELSE ""
    IN  /\ pc \in {"serving", "shutdown"}
        /\ request' = [path |-> "/api/send", v_channel |-> v_channel,
                       message |-> message]
        /\ UNCHANGED <<maintenance, idle, inited, pc, call, collection>>
        /\ IF exc # ""
           THEN /\ event' = [op |-> "send_message", res |-> exc]
                /\ response' = handle_errors_middleware(exc, "rejected")
                /\ UNCHANGED channel
           ELSE /\ add_message
                /\ response' = IF event'.res = "" THEN Accepted
                                ELSE handle_errors_middleware(event'.res,
                                        "This queue is full. Try again later")

\* Controller.send_message behind handle_errors_middleware, for a request
\* to /api/send/<v_channel> with the given message parameter; connections
\* that are open when the shutdown starts are still served
send_message(v_channel, message) ==
    LET got == extract_param(message)
        raised ==
            IF got.raised
            THEN <<"RequestParameterError",
                   "Request parameter message is not presented in the request">>
            ELSE IF ~is_channel(v_channel)
            THEN <<"RequestParameterError", "Unknown channel " \o v_channel>>
            ELSE IF Len(got.value) = 0
            THEN <<"RequestParameterError", "Message could not be empty">>
            ELSE IF ~is_running
            THEN <<"TemporaryUnawailableError",
                   "Channel is not available for now">>
            ELSE <<"", "">>
    IN  /\ pc \in {"serving", "shutdown"}
        /\ request' = [path |-> "/api/send", v_channel |-> v_channel,
                       message |-> message]
        /\ UNCHANGED <<maintenance, idle, inited, pc, call, collection>>
        /\ IF raised[1] # ""
           THEN /\ event' = [op |-> "send_message", res |-> raised[1]]
                /\ response' = handle_errors_middleware(raised[1], raised[2])
                /\ UNCHANGED channel
           ELSE /\ add_message
                /\ response' = IF event'.res = "" THEN Accepted
                                ELSE handle_errors_middleware(event'.res,
                                        "This queue is full. Try again later")

\* a ping that answers OK whatever the flag says
ping_always_ok ==
    /\ pc \in {"serving", "shutdown"}
    /\ response' = [status |-> 200, text |-> "OK", retry_after |-> None]
    /\ event' = [op |-> "ping", res |-> ""]
    /\ request' = [path |-> "/api/ping", v_channel |-> "", message |-> {}]
    /\ UNCHANGED <<maintenance, idle, inited, pc, call, collection>>
    /\ UNCHANGED channel

\* Controller.ping
ping ==
    /\ pc \in {"serving", "shutdown"}
    /\ response' = IF maintenance
                   THEN [status |-> 503, text |-> "FAIL",
                         retry_after |-> DEFAULT_RETRY_AFTER]
                   ELSE [status |-> 200, text |-> "OK", retry_after |-> None]
    /\ event' = [op |-> "ping", res |-> ""]
    /\ request' = [path |-> "/api/ping", v_channel |-> "", message |-> {}]
    /\ UNCHANGED <<maintenance, idle, inited, pc, call, collection>>
    /\ UNCHANGED channel

\* a request to a path that has no route: the router's handler raises
\* web.HTTPNotFound inside the middleware
not_found ==
    /\ pc \in {"serving", "shutdown"}
    /\ request' = [path |-> "/api/unknown", v_channel |-> "", message |-> {}]
    /\ event' = [op |-> "not_found", res |-> "HTTPNotFound"]
    /\ response' = handle_errors_middleware("HTTPNotFound", "404: Not Found")
    /\ UNCHANGED <<maintenance, idle, inited, pc, call, collection>>
    /\ UNCHANGED channel

\* Application.init: the routes, the middleware and the startup and
\* shutdown handlers of the channel are registered
init ==
    /\ pc = "constructed"
    /\ ~inited /\ idle
    /\ inited' = TRUE
    /\ pc' = "inited"
    /\ event' = [op |-> "init", res |-> ""]
    /\ UNCHANGED <<maintenance, idle, request, response, call, collection>>
    /\ UNCHANGED channel

\* Application.run -> Server.run, up to the call of web.run_app
run ==
    /\ pc \in {"constructed", "inited"}
    /\ IF ~inited
       THEN /\ event' = [op |-> "run", res |-> "RuntimeError"]
            /\ UNCHANGED <<maintenance, idle, pc>>
       ELSE /\ idle' = FALSE
            /\ maintenance' = FALSE
            /\ pc' = "run"
            /\ event' = [op |-> "run", res |-> ""]
    /\ UNCHANGED <<inited, request, response, call, collection>>
    /\ UNCHANGED channel

\* the runner starts the web application and sends on_startup, which holds
\* channel.activate: the runner is web.run_app, called by Server.run, or a
\* runner that is given Server.app directly, as the test server of
\* src/tests is
on_startup ==
    /\ pc \in {"inited", "run"}
    /\ activate
    /\ pc' = "serving"
    /\ UNCHANGED <<maintenance, idle, inited, request, response, call, collection>>

\* the runner stops and sends on_shutdown, which holds channel.deactivate
on_shutdown ==
    /\ pc = "serving"
    /\ deactivate
    /\ pc' = "shutdown"
    /\ UNCHANGED <<maintenance, idle, inited, request, response, call, collection>>

\* the application: its life cycle, its requests and the delivery loop
AppNext ==
    \/ init
    \/ run
    \/ on_startup
    \/ on_shutdown
    \/ \E v_channel \in Names, message \in Params :
          send_message(v_channel, message)
    \/ ping
    \/ not_found
    \/ \E i \in TaskIds : assign_worker(i)

AppSpec == Init /\ [][AppNext]_vars

\* ------------------------------------------------- the functions on their own
\* readings of the clock, in ticks
Clock == 0..MaxClock

\* numbers of seconds a hint can ask for: small ones, a negative one, the
\* longest wait and one above it
Seconds == (0..MaxDelay) \cup {-3, MAX_RETRY_AFTER, MAX_RETRY_AFTER + 1}

\* the delays a WorkerAwaitError can be built with: integers, floats, their
\* texts, texts that are no number, and dates in the three forms of
\* get_delay_in_seconds, each naming a whole second
Hints ==
    {[kind |-> "int", v |-> k] : k \in Seconds}
    \cup {[kind |-> "float", v |-> k, tenths |-> t] :
            k \in 0..MaxDelay, t \in {0, 5}}
    \cup {[kind |-> "str", text |-> str(k)] : k \in Seconds}
    \cup {[kind |-> "str", text |-> t] :
            t \in {<<>>, <<"s", "o", "o", "n">>, <<"7", ".", "5">>,
                   <<"G", "M", "T">>}}
    \cup {[kind |-> "date", zone |-> z, at |-> t] :
            z \in {"GMT", "UTC", "+0000"}, t \in 0..MaxTime}

\* statuses of the upstream service
Statuses == {200, 400, 408, 500, 502, 503, 504}

\* responses of the upstream service: the status, whether the content type
\* is application/json, the ok and retry_after members of the document and
\* the Retry-After header
Responses ==
    [status : Statuses, json : BOOLEAN, ok : BOOLEAN,
     retry_after : {None, 7}, header : {None, 30}]

\* Telegram.operate for the response that execute_query got: for a content
\* type other than application/json data is the coroutine of
\* response.text(), which has no get
Telegram_operate(prepared, upstream) ==
    IF ~prepared THEN [raised |-> "RequestExecutionError", delay |-> None]
    ELSE IF ~upstream.json THEN [raised |-> "AttributeError", delay |-> None]
    ELSE [raised |-> "", delay |-> None]

\* get_delay_in_seconds(delay), called when the clock reads now
call_get_delay_in_seconds(delay, now) ==
    /\ call = NoCall
    /\ call' = [fn |-> "get_delay_in_seconds", delay |-> delay, now |-> now,
                result |-> get_delay_in_seconds(delay, now)]
    /\ UNCHANGED <<channel, server, event, collection>>

\* the wait policy, called by tenacity's iter after each attempt of a call
\* that raised a WorkerAwaitError carrying delay: the attempts are numbered
\* from 1, and an exception of the policy ends the call
call_wait(delay, now) ==
    /\ call.fn \in {"", "wait"}
    /\ call.fn = "wait" =>
          /\ ~call.result.raised
          /\ call.attempt_number < MaxAttemptNumber
          /\ now >= call.now
    /\ LET attempt_number ==
               IF call.fn = "wait" THEN call.attempt_number + 1 ELSE 1
       IN  call' = [fn |-> "wait", attempt_number |-> attempt_number,
                    delay |-> delay, now |-> now,
                    result |-> wait(attempt_number, delay, now)]
    /\ UNCHANGED <<channel, server, event, collection>>

\* Telegram.operate, called when the upstream service answers upstream
call_operate(prepared, upstream) ==
    /\ call = NoCall
    /\ call' = [fn |-> "operate", prepared |-> prepared,
                upstream |-> upstream,
                result |-> Telegram_operate(prepared, upstream)]
    /\ UNCHANGED <<channel, server, event, collection>>

\* the functions of the package called on their own: their results depend
\* on the arguments only
UnitNext ==
    \/ \E delay \in Hints, now \in Clock :
          call_get_delay_in_seconds(delay, now)
    \/ \E delay \in Hints, now \in Clock : call_wait(delay, now)
    \/ \E prepared \in BOOLEAN, upstream \in Responses :
          call_operate(prepared, upstream)

UnitSpec == Init /\ [][UnitNext]_vars

\* ---------------------------------------------------------- the collection
\* Two channels of one collection, each reduced to what another channel
\* could see of it: its queue, its counters, its last_error and its task.
\* A channel record holds the position of the task _task refers to ("None"
\* for no task), the number of cancelled tasks the event loop has yet to
\* run, and the number of messages its add_message accepted.

\* a load_channels that gives every channel the queue of the first
load_channels_shared ==
    [c \in Collection |-> [queue |-> "TestChannel", worker |-> c]]

\* VCCollection.load_channels: every configured channel is built with a
\* queue and a worker of its own; an object is named by its id
load_channels == [c \in Collection |-> [queue |-> c, worker |-> c]]

\* the queue object of channel c
queue_of(c) == load_channels[c].queue

\* the top of the while loop of channel c's task, on queue q: the head of
\* the queue is taken and attempted, or the task waits in queue.get()
vc_get_task(ch, q) ==
    IF q = <<>>
    THEN [channel |-> [ch EXCEPT !.task = "take"], queue |-> q]
    ELSE [channel |-> [ch EXCEPT !.task = "operate"],
          queue |-> get_task(q).queue]

\* VirtualChannel.add_message of channel c
vc_add_message(c) ==
    LET ch == channels[c]
        put == put_nowait(queues[queue_of(c)], ch.accepted + 1, QueueSize)
    IN  /\ ch.accepted < MaxCollectionMessages
        /\ ~put.raised
        /\ queues' = [queues EXCEPT ![queue_of(c)] = put.queue]
        /\ channels' = [channels EXCEPT ![c].accepted = @ + 1]

\* VirtualChannel.activate of channel c, on a channel that is not running
vc_activate(c) ==
    LET ch == channels[c] IN
        /\ ch.task \in {"None", "done"}
        /\ ch.cancelled < MaxTasks
        /\ channels' = [channels EXCEPT ![c].task = "new",
                                        ![c].messages_send = 0,
                                        ![c].messages_rejected = 0,
                                        ![c].last_error = "None"]
        /\ UNCHANGED queues

\* VirtualChannel.deactivate of channel c, on a channel with a task: a task
\* that entered the loop has its cancellation still to come
vc_deactivate(c) ==
    LET ch == channels[c] IN
        /\ ch.task # "None"
        /\ channels' = [channels EXCEPT
              ![c].task = "None",
              ![c].cancelled = IF ch.task \in {"new", "done"}
                               THEN @ ELSE @ + 1]
        /\ UNCHANGED queues

\* the event loop runs a cancelled task of channel c
vc_cancelled(c) ==
    /\ channels[c].cancelled > 0
    /\ channels' = [channels EXCEPT
          ![c].cancelled = @ - 1,
          ![c].last_error = except_clause("CancelledError").reason]
    /\ UNCHANGED queues

\* a step of the delivery task of channel c: it enters the loop, is woken
\* by a put, or its call of operate ends with exc, after which it takes
\* the next message or ends; a retry leaves all that is modelled here as
\* it was
vc_assign_worker(c, exc) ==
    LET ch == channels[c]
        q == queues[queue_of(c)]
        h == except_clause(exc)
        after == IF exc = "return"
                 THEN [ch EXCEPT !.messages_send = @ + 1]
                 ELSE [ch EXCEPT !.messages_rejected = @ + h.rejected,
                                 !.last_error = h.reason]
        next == IF ch.task = "operate" /\ exc # "return" /\ h.exits
                THEN [channel |-> [after EXCEPT !.task = "done"], queue |-> q]
                ELSE vc_get_task(IF ch.task = "operate" THEN after ELSE ch, q)
    IN  /\ \/ ch.task = "new" /\ exc = "return"
           \/ ch.task = "take" /\ exc = "return" /\ q # <<>>
           \/ ch.task = "operate"
        /\ channels' = [channels EXCEPT ![c] = next.channel]
        /\ queues' = [queues EXCEPT ![queue_of(c)] = next.queue]

PairNext ==
    \/ \E c \in Collection : vc_add_message(c)
          /\ UNCHANGED <<channel, server, event, call>>
    \/ \E c \in Collection : vc_activate(c)
          /\ UNCHANGED <<channel, server, event, call>>
    \/ \E c \in Collection : vc_deactivate(c)
          /\ UNCHANGED <<channel, server, event, call>>
    \/ \E c \in Collection : vc_cancelled(c)
          /\ UNCHANGED <<channel, server, event, call>>
    \/ \E c \in Collection, exc \in Outcomes :
          vc_assign_worker(c, exc)
          /\ UNCHANGED <<channel, server, event, call>>

PairSpec == Init /\ [][PairNext]_vars

\* ------------------------------------------------------------- properties
Range(q) == {q[k] : k \in 1..Len(q)}

\* the task whose step this is: the one live task that was not cancelled
Acting(i) == tasks[i].pc \notin {"absent", "done"} /\ ~tasks[i].must_cancel

\* messages that were taken from the queue and are no longer held
Settled == Range(order) \ InFlight

\* a settled message is never queued or attempted again
SettledForGood == \A m \in Settled : m \notin InFlight' /\ m \notin Range(queue')

\* the loop of task i goes on with the next queued message, or waits for one
Proceeds(i) ==
    /\ task' = i
    /\ IF queue = <<>>
       THEN tasks'[i].pc = "take" /\ queue' = queue
       ELSE /\ tasks'[i].pc = "operate"
            /\ tasks'[i].message = Head(queue)
            /\ tasks'[i].attempt = 1
            /\ queue' = Tail(queue)

\* C1: a queue of capacity queue_size never holds more than queue_size
\* messages; add_task on a full queue raises TemporaryUnawailableError and
\* leaves the queue as it was; add_task on a queue that is not full raises
\* nothing and appends the message.
C1_BoundedQueue ==
    /\ [](Len(queue) <= queue_size)
    /\ [][event'.op = "add_task" =>
            IF Len(queue) >= queue_size
            THEN event'.res = "TemporaryUnawailableError" /\ queue' = queue
            ELSE event'.res = "" /\ queue' = Append(queue, accepted')
                 /\ accepted' = accepted + 1]_vars

C1_Witness ==
    /\ event = [op |-> "add_task", res |-> "TemporaryUnawailableError"]
    /\ Len(queue) = queue_size

\* C2: messages get their first delivery attempt in the order in which they
\* were accepted (messages are numbered in the order of acceptance), and
\* every message still queued was accepted after every message attempted.
C2_FifoPerChannel ==
    /\ \A a, b \in 1..Len(order) : a < b => order[a] < order[b]
    /\ \A a, b \in 1..Len(queue) : a < b => queue[a] < queue[b]
    /\ \A m \in Range(order), n \in Range(queue) : m < n

C2_Witness ==
    /\ Len(order) = MaxMessages
    /\ \E i \in TaskIds : tasks[i].must_cancel

\* C3: the number of operate calls made for the message a delivery loop
\* holds never exceeds max_attempts.
C3_RetryBound == \A i \in TaskIds : tasks[i].attempt <= retry_attempts

C3_Witness ==
    /\ retry_attempts = MaxRetryAttempts
    /\ \E i \in TaskIds : /\ tasks[i].pc = "operate"
                          /\ tasks[i].attempt = retry_attempts

\* C4: when operate raises WorkerExecutionError, the message is dropped by
\* the loop and never queued or attempted again, rejected grows by one, sent
\* stays, last_error records the error, and the loop keeps running and goes
\* on with the next queued message.
C4_TerminalReject ==
    [][/\ event' = [op |-> "operate", res |-> "WorkerExecutionError"] =>
            \E i \in TaskIds :
                /\ Acting(i) /\ tasks[i].pc = "operate"
                /\ tasks[i].message \notin InFlight' \cup Range(queue')
                /\ messages_rejected' = messages_rejected + 1
                /\ messages_send' = messages_send
                /\ last_error' = "WorkerExecutionError"
                /\ is_running'
                /\ Proceeds(i)
       /\ SettledForGood]_vars

C4_Witness ==
    /\ event = [op |-> "operate", res |-> "WorkerExecutionError"]
    /\ \E i \in TaskIds : tasks[i].pc = "operate" /\ tasks[i].message > 1
    /\ messages_rejected = 1

\* C5: when operate raises WorkerAwaitError on the max_attempts-th attempt
\* for a message, rejected grows by one, sent stays, last_error records the
\* WorkerAwaitError, and the loop keeps running and goes on with the next
\* queued message; a WorkerAwaitError after which the message is kept for
\* another attempt changes neither counter.
C5_RetryExhaustion ==
    [][event' = [op |-> "operate", res |-> "WorkerAwaitError"] =>
          \E i \in TaskIds :
              /\ Acting(i) /\ tasks[i].pc = "operate"
              /\ tasks[i].attempt = retry_attempts =>
                    /\ tasks[i].message \notin InFlight' \cup Range(queue')
                    /\ messages_rejected' = messages_rejected + 1
                    /\ messages_send' = messages_send
                    /\ last_error' = "WorkerAwaitError"
                    /\ is_running'
                    /\ Proceeds(i)
              /\ tasks[i].message \in InFlight' =>
                    /\ tasks[i].attempt < retry_attempts
                    /\ messages_rejected' = messages_rejected
                    /\ messages_send' = messages_send]_vars

C5_Witness ==
    /\ event = [op |-> "operate", res |-> "WorkerAwaitError"]
    /\ retry_attempts = MaxRetryAttempts
    /\ messages_rejected = 1
    /\ last_error = "WorkerAwaitError"
    /\ \E i \in TaskIds : tasks[i].pc = "operate" /\ tasks[i].attempt = 1

\* the messages that stop being held in this step
Leaving == InFlight \ InFlight'

\* C6: the step in which a loop lets go of a message is exactly one of:
\* operate returned and sent grew by one; operate failed and rejected grew
\* by one; the loop was cancelled and neither counter changed.  No other
\* step changes a counter, except activate, which resets both; and a message
\* let go is never held or queued again.
C6_OneOutcomePerMessage ==
    [][/\ \A m \in Leaving :
            \/ /\ event' = [op |-> "operate", res |-> "return"]
               /\ messages_send' = messages_send + 1
               /\ messages_rejected' = messages_rejected
            \/ /\ event'.op = "operate" /\ event'.res # "return"
               /\ messages_send' = messages_send
               /\ messages_rejected' = messages_rejected + 1
            \/ /\ event'.op = "cancelled"
               /\ messages_send' = messages_send
               /\ messages_rejected' = messages_rejected
       /\ Cardinality(Leaving) <= 1
       /\ Leaving = {} =>
            \/ /\ messages_send' = messages_send
               /\ messages_rejected' = messages_rejected
            \/ /\ event' = [op |-> "activate", res |-> ""]
               /\ messages_send' = 0
               /\ messages_rejected' = 0
       /\ SettledForGood]_vars

C6_Witness ==
    /\ messages_send = 1
    /\ messages_rejected = 1
    /\ Len(order) = 3
    /\ InFlight = {}
    /\ event.op = "cancelled"

C8_CancelLosesInFlight ==
    [][(event'.op = "cancelled" /\ event'.res \in {"operate", "sleep"}) =>
          \E i \in TaskIds :
              /\ tasks[i].must_cancel
              /\ tasks[i].pc = event'.res
              /\ tasks'[i] # tasks[i]
              /\ tasks[i].message # None
              /\ tasks[i].message \notin InFlight' \cup Range(queue')
              /\ queue' = queue
              /\ messages_send' = messages_send
              /\ messages_rejected' = messages_rejected
              /\ last_error' = "Worker was stopped"]_vars

C8_Witness ==
    /\ event = [op |-> "cancelled", res |-> "sleep"]
    /\ last_error = "Worker was stopped"
    /\ queue # <<>>

\* a call of operate starts in this step: the first for a message just
\* taken, or the next one after a retry sleep
AttemptStarts ==
    \/ order' # order
    \/ \E i \in TaskIds : tasks[i].pc = "sleep" /\ tasks'[i].pc = "operate"

\* C9: a delivery task that deactivate cancelled terminates, whether it was
\* waiting for a message, sleeping before a retry or inside operate; and
\* while the channel has no delivery task (from deactivate until the next
\* activate) no call of operate starts and no cancelled task starts one.
C9_DeactivateStops ==
    /\ \A i \in TaskIds : tasks[i].must_cancel ~> (i \notin Live)
    /\ [][/\ task = None => ~AttemptStarts
          /\ \A i \in TaskIds :
                tasks[i].must_cancel =>
                    tasks'[i].pc \in {"absent", "done"} \/ tasks'[i] = tasks[i]]_vars

C9_Witness ==
    /\ task = None
    /\ event = [op |-> "cancelled", res |-> "take"]
    /\ Live = {}
    /\ queue # <<>>

\* the delivery loops that run or will run: a task cancelled before its first
\* step never enters the loop and is not counted
Loops == {i \in Live : tasks[i].pc # "new" \/ ~tasks[i].must_cancel}

\* C10: in every reachable state at most one delivery loop of the channel
\* has not terminated yet.
C10_AtMostOneLoop == Cardinality(Loops) <= 1

\* C11: activate on a running channel raises RequestExecutionError and
\* changes nothing: the delivery task is the same and is still running, and
\* sent, rejected, last_error and the queue are as they were; and activate
\* raises only on a running channel.
C11_ActivateRunningFails ==
    [][event'.op = "activate" =>
          IF is_running
          THEN /\ event'.res = "RequestExecutionError"
               /\ task' = task /\ tasks' = tasks /\ is_running'
               /\ messages_send' = messages_send
               /\ messages_rejected' = messages_rejected
               /\ last_error' = last_error
               /\ queue' = queue
               /\ UNCHANGED channel
          ELSE event'.res = ""]_vars

C11_Witness ==
    /\ event = [op |-> "activate", res |-> "RequestExecutionError"]
    /\ messages_send = 1
    /\ messages_rejected = 1
    /\ last_error # "None"
    /\ queue # <<>>

\* C12: an activate on a channel that is not running creates exactly one
\* delivery task, which _task then refers to, sets sent and rejected to 0
\* and last_error to absent, and makes is_running true.
C12_ActivateStarts ==
    [][(event'.op = "activate" /\ ~is_running) =>
          /\ event'.res = ""
          /\ Live' = Live \cup {task'}
          /\ task' \notin Live
          /\ tasks'[task'].pc = "new" /\ ~tasks'[task'].must_cancel
          /\ \A i \in Live : tasks'[i] = tasks[i]
          /\ messages_send' = 0
          /\ messages_rejected' = 0
          /\ last_error' = "None"
          /\ is_running']_vars

C12_Witness ==
    /\ event = [op |-> "activate", res |-> ""]
    /\ accepted = MaxMessages
    /\ queue = <<>>
    /\ InFlight = {}
    /\ messages_send = 0 /\ messages_rejected = 0 /\ last_error = "None"

C14_CountersOnlyIncrease ==
    [][/\ messages_send' >= messages_send
       /\ messages_rejected' >= messages_rejected]_vars

\* C14: no step other than a successful activate lowers the sent counter or
\* the rejected counter; a successful activate sets both to 0.
C14_CountersIncreaseBetweenActivations ==
    [][IF event' = [op |-> "activate", res |-> ""]
       THEN messages_send' = 0 /\ messages_rejected' = 0
       ELSE /\ messages_send' >= messages_send
            /\ messages_rejected' >= messages_rejected]_vars

C14_Witness ==
    /\ event = [op |-> "deactivate", res |-> ""]
    /\ messages_send = 1
    /\ messages_rejected = 2

\* this step answers a request to /api/send/<v_channel>
Sends == event'.op \in {"send_message", "add_task"}

\* the request of this step names a configured channel and carries a text
WellFormed ==
    /\ request'.v_channel \in Channels
    /\ request'.message \notin {{}, {""}}

\* C15: while the maintenance flag is true, every request to
\* /api/send/<channel>, whatever its channel and body, is answered 503 with
\* the error 'Service is temporary unawailable', and the queue is left as
\* it was.
C15_MaintenanceShield ==
    [][(Sends /\ maintenance) =>
          /\ response'.status = 503
          /\ response'.text = "Service is temporary unawailable"
          /\ queue' = queue]_vars

\* C16: the maintenance flag is true from the construction of the
\* application until Server.run, false while the server that Server.run
\* started is serving, and true again once the shutdown has deactivated the
\* channel; it changes only when Server.run starts the server and when the
\* shutdown begins.
C16_MaintenanceLifecycle ==
    /\ [](idle => maintenance)
    /\ []((~idle /\ pc \in {"run", "serving"}) => ~maintenance)
    /\ [](pc = "shutdown" => maintenance)
    /\ [][maintenance' # maintenance =>
            \/ pc = "inited" /\ pc' = "run"
            \/ pc = "serving" /\ pc' = "shutdown"]_vars

\* C17: /api/ping answers 503 'FAIL' with Retry-After = retry_after when the
\* maintenance flag is true and 200 'OK' when it is false, whatever the
\* state of the channel, and it changes nothing but the response.
C17_PingReflectsMaintenance ==
    [][event'.op = "ping" =>
          /\ response' = IF maintenance
                          THEN [status |-> 503, text |-> "FAIL",
                                retry_after |-> DEFAULT_RETRY_AFTER]
                          ELSE [status |-> 200, text |-> "OK",
                                retry_after |-> None]
          /\ UNCHANGED channel
          /\ UNCHANGED <<maintenance, idle, inited, pc>>]_vars

C17_Witness ==
    /\ event.op = "ping"
    /\ response = [status |-> 503, text |-> "FAIL",
                   retry_after |-> DEFAULT_RETRY_AFTER]
    /\ is_running
    /\ InFlight # {} /\ queue # <<>>

\* C18: a well-formed send to the channel while it is not running (its task
\* was cancelled, or its loop was aborted) is answered 503 'Channel is not
\* available for now' and changes nothing in the channel; and no step taken
\* while the channel is not running adds a message to the queue.
C18_AdmissionNeedsRunning ==
    [][/\ (Sends /\ WellFormed /\ ~is_running) =>
            /\ event' = [op |-> "send_message",
                          res |-> "TemporaryUnawailableError"]
            /\ response'.status = 503
            /\ response'.text = "Channel is not available for now"
            /\ UNCHANGED channel
       /\ ~is_running => Len(queue') <= Len(queue)]_vars

C18_Witness ==
    /\ response.status = 503
    /\ response.text = "Channel is not available for now"
    /\ pc = "serving"
    /\ task # None /\ done(task)
    /\ last_error = "Exception"
    /\ queue # <<>>

C20_QueueFullWithInFlight ==
    /\ [](Len(queue) <= queue_size /\ Cardinality(InFlight) <= 1)
    /\ [][(Sends /\ WellFormed /\ is_running) =>
            IF Len(queue) < queue_size
            THEN /\ response' = Accepted
                 /\ queue' = Append(queue, accepted + 1)
                 /\ accepted' = accepted + 1
            ELSE /\ response'.status = 503
                 /\ response'.text = "This queue is full. Try again later"
                 /\ queue' = queue
                 /\ accepted' = accepted]_vars

C20_Witness ==
    /\ response.status = 503
    /\ response.text = "This queue is full. Try again later"
    /\ InFlight = {1}
    /\ queue = [k \in 1..queue_size |-> k + 1]
    /\ accepted = queue_size + 1
    /\ is_running

\* this step answers a request behind handle_errors_middleware
Answers == event'.op \in {"send_message", "add_task", "ping", "not_found"}

\* C21: behind the error middleware a RequestParameterError of the handler is
\* answered 422 and a TemporaryUnawailableError 503, each with the body
\* {status: "error", error: <message>}; a framework HTTP exception is
\* answered by the exception itself; and a response the handler returned is
\* answered unchanged.
C21_MiddlewareMapping ==
    [][Answers =>
          CASE event'.res = "RequestParameterError" ->
                  /\ response'.status = 422
                  /\ response'.json =
                        [status |-> "error", error |-> response'.text]
            [] event'.res = "TemporaryUnawailableError" ->
                  /\ response'.status = 503
                  /\ response'.json =
                        [status |-> "error", error |-> response'.text]
            [] event'.res = "HTTPNotFound" ->
                  response' = [status |-> 404, text |-> "404: Not Found",
                               retry_after |-> None]
            [] OTHER ->
                  \/ response' = Accepted
                  \/ response'.text \in {"OK", "FAIL"}]_vars

\* the delay of a WorkerAwaitError that was built without one
NoHint == [kind |-> "int", v |-> 0]

\* the exponential default of the policy after attempt k
Default(k) ==
    IF MIN_RETRY_AFTER + RETRY_BASE ^ k <= MAX_RETRY_AFTER
    THEN MIN_RETRY_AFTER + RETRY_BASE ^ k ELSE MAX_RETRY_AFTER

\* the wait policy was called and returned
Waited == call.fn = "wait" /\ ~call.result.raised

\* C22: for a WorkerAwaitError without a hint the wait after attempt k is
\* min(min_wait + base^k, max_wait); over a run of such errors the waits do
\* not decrease, and stay at max_wait once they reached it.
C22_ExponentialBackoff ==
    /\ [](call.fn = "wait" /\ call.delay = NoHint =>
            /\ ~call.result.raised
            /\ call.result.value = Default(call.attempt_number))
    /\ [][(/\ call.fn = "wait" /\ call'.fn = "wait"
           /\ call.delay = NoHint /\ call'.delay = NoHint) =>
            /\ call'.attempt_number = call.attempt_number + 1
            /\ call'.result.value >= call.result.value
            /\ call.result.value = MAX_RETRY_AFTER =>
                  call'.result.value = MAX_RETRY_AFTER]_vars

C22_Witness ==
    /\ Waited
    /\ call.delay = NoHint
    /\ call.attempt_number = MaxAttemptNumber
    /\ call.result.value = MAX_RETRY_AFTER
    /\ MIN_RETRY_AFTER + RETRY_BASE ^ (call.attempt_number - 1)
          > MAX_RETRY_AFTER

\* the waits a hint can ask for, from 0 to max_wait
Asked == {d \in Seconds : 0 <= d /\ d <= MAX_RETRY_AFTER}

\* delay asks for d seconds when the clock reads now: as an integer, as the
\* text of an integer, or as a date no more than d seconds ahead
Asks(delay, now, d) ==
    \/ delay = [kind |-> "int", v |-> d]
    \/ delay = [kind |-> "str", text |-> str(d)]
    \/ /\ delay.kind = "date"
       /\ d * TicksPerSecond >= delay.at * TicksPerSecond - now
       /\ (d - 1) * TicksPerSecond < delay.at * TicksPerSecond - now

\* C23 as stated: when the WorkerAwaitError of an attempt carries a delay d
\* with 0 <= d <= max_wait, as an integer, a numeric text or a date, the wait
\* before the next attempt is d, for every attempt number and every such d,
\* d = 0 included.
C23_HintOverride ==
    [](call.fn = "wait" =>
         \A d \in Asked :
            Asks(call.delay, call.now, d) =>
                ~call.result.raised /\ call.result.value = d)

\* C23: when the WorkerAwaitError of an attempt carries a delay d with
\* 0 <= d <= max_wait, the wait before the next attempt is d for every
\* attempt number, unless the delay is the integer 0: that one is taken for
\* no hint and the wait is the exponential default.  A text "0" and a date
\* that is due give a wait of 0.
C23_HintOverrideUnlessZero ==
    [](call.fn = "wait" =>
         \A d \in Asked :
            Asks(call.delay, call.now, d) =>
                /\ ~call.result.raised
                /\ call.result.value = IF call.delay = NoHint
                                       THEN Default(call.attempt_number)
                                       ELSE d)

C23_Witness ==
    /\ Waited
    /\ call.delay = [kind |-> "str", text |-> <<"0">>]
    /\ call.attempt_number > 1
    /\ call.result.value = 0

\* C24: for every attempt number and every error without a hint, with an
\* integer hint of any size or with a date hint in the past or in the
\* future, the policy returns a wait w with 0 <= w <= max_wait; and whatever
\* the hint, a wait the policy returns is within these bounds.
C24_WaitIsBounded ==
    [](call.fn = "wait" =>
         /\ call.delay.kind \in {"int", "date"} => ~call.result.raised
         /\ ~call.result.raised =>
               /\ 0 <= call.result.value
               /\ call.result.value <= MAX_RETRY_AFTER)

C24_Witness ==
    /\ Waited
    /\ call.delay = [kind |-> "int", v |-> MAX_RETRY_AFTER + 1]
    /\ call.attempt_number = 1
    /\ call.result.value = MAX_RETRY_AFTER

\* a text that writes no number and no date
Unparseable(delay) ==
    /\ delay.kind = "str"
    /\ \E k \in 1..Len(delay.text) :
          ~IsDigit(delay.text[k]) /\ delay.text[k] \notin {".", "+", "-"}

\* C25: when a WorkerAwaitError carries a hint that is neither a number nor
\* a date, the policy returns the exponential default
\* min(min_wait + base^attempt, max_wait), so that the message is retried
\* and the delivery loop keeps running.
C25_UnparseableHintFallsBack ==
    [](call.fn = "wait" /\ Unparseable(call.delay) =>
         /\ ~call.result.raised
         /\ call.result.value = Default(call.attempt_number))

\* C26: get_delay_in_seconds of a date in the GMT, UTC or offset form whose
\* time is at or before the reading of the clock returns 0, never a negative
\* number; for a date ahead of the clock it returns the whole number of
\* seconds ceil(target - now).
C26_PastDatesClampToZero ==
    [](call.fn = "get_delay_in_seconds" /\ call.delay.kind = "date" =>
         LET ahead == call.delay.at * TicksPerSecond - call.now IN
         /\ ~call.result.raised
         /\ IF ahead <= 0
            THEN call.result.value = 0
            ELSE /\ call.result.value * TicksPerSecond >= ahead
                 /\ (call.result.value - 1) * TicksPerSecond < ahead)

\* C27: for every integer k >= 0, get_delay_in_seconds of k, of float(k) and
\* of the text str(k) returns k.
C27_RoundTripParse ==
    [](call.fn = "get_delay_in_seconds" =>
         \A k \in 0..MaxDelay :
            call.delay \in {[kind |-> "int", v |-> k],
                            [kind |-> "float", v |-> k, tenths |-> 0],
                            [kind |-> "str", text |-> str(k)]} =>
                call.result = [raised |-> FALSE, value |-> k])

C27_Witness ==
    /\ call.fn = "get_delay_in_seconds"
    /\ call.delay = [kind |-> "str", text |-> str(MaxDelay)]
    /\ Len(call.delay.text) > 1
    /\ call.result = [raised |-> FALSE, value |-> MaxDelay]

\* C28: for every response of the upstream service, operate returns iff the
\* status is 200 and the decoded document has ok = true; it raises
\* WorkerAwaitError iff the status is one of 408, 502, 503 and 504, with the
\* hint of the document's retry_after, else of the Retry-After header, else
\* none; in every other case it raises WorkerExecutionError.
C28_OutcomeClassification ==
    [](call.fn = "operate" /\ call.prepared =>
         LET upstream == call.upstream
             result == call.result
         IN  IF upstream.status = 200 /\ upstream.json /\ upstream.ok
             THEN result.raised = ""
             ELSE IF upstream.status \in {408, 502, 503, 504}
             THEN /\ result.raised = "WorkerAwaitError"
                  /\ result.delay =
                        IF upstream.json /\ upstream.retry_after # None
                        THEN upstream.retry_after
                        ELSE upstream.header
             ELSE result.raised = "WorkerExecutionError")

\* C29: within the channel the attempts and the retry sleeps of a message
\* all come before the first attempt of the next message: a loop that was
\* not cancelled works on the message that was the last to get a first
\* attempt, no other such loop holds a message, and no message gets a first
\* attempt twice.
C29_SingleInFlight ==
    /\ \A i \in TaskIds :
          (Acting(i) /\ tasks[i].message # None) =>
              /\ tasks[i].pc \in {"operate", "sleep"}
              /\ tasks[i].message = order[Len(order)]
              /\ \A j \in TaskIds \ {i} :
                    Acting(j) => tasks[j].message = None
    /\ \A a, b \in 1..Len(order) : a # b => order[a] # order[b]

C29_Witness ==
    /\ Len(order) >= 2
    /\ queue # <<>>
    /\ \E i \in TaskIds :
          /\ Acting(i)
          /\ tasks[i].pc = "sleep"
          /\ tasks[i].message = order[Len(order)]

\* the delivery loops that entered the block of async with worker.prepare()
Entered == {i \in Live : tasks[i].pc # "new"}

C31_NoSleepAfterLastAttempt ==
    [][\A i \in TaskIds :
          /\ (tasks[i].pc # "sleep" /\ tasks'[i].pc = "sleep") =>
                /\ tasks[i].pc = "operate"
                /\ event' = [op |-> "operate", res |-> "WorkerAwaitError"]
                /\ tasks[i].attempt < retry_attempts
                /\ tasks'[i].attempt = tasks[i].attempt
                /\ tasks'[i].message = tasks[i].message
          /\ (tasks[i].pc = "sleep" /\ tasks'[i].pc = "operate") =>
                /\ tasks'[i].attempt = tasks[i].attempt + 1
                /\ tasks'[i].message = tasks[i].message
          /\ (tasks'[i].pc = "operate" /\ tasks'[i].attempt > 1
              /\ tasks'[i].attempt # tasks[i].attempt) =>
                tasks[i].pc = "sleep"
          /\ (/\ event' = [op |-> "operate", res |-> "WorkerAwaitError"]
              /\ Acting(i) /\ tasks[i].pc = "operate"
              /\ tasks[i].attempt = retry_attempts) =>
                /\ tasks'[i].pc # "sleep"
                /\ tasks[i].message \notin InFlight'
                /\ messages_rejected' = messages_rejected + 1]_vars

C31_Witness ==
    /\ event = [op |-> "operate", res |-> "WorkerAwaitError"]
    /\ retry_attempts = MaxRetryAttempts
    /\ messages_rejected = 1
    /\ last_error = "WorkerAwaitError"
    /\ \E i \in TaskIds : Acting(i) /\ tasks[i].pc # "sleep"

\* C32: the delivery loop survives every exception of operate that is not a
\* cancellation (WorkerExecutionError, WorkerAwaitError, any other
\* exception): the loop that made the attempt does not end, it takes the
\* next message once it let go of the failed one, and a delivery loop ends
\* only by a cancellation.
C32_LoopSurvivesEveryError ==
    [][/\ (event'.op = "operate" /\ event'.res # "return") =>
            \E i \in TaskIds :
                /\ Acting(i) /\ tasks[i].pc = "operate"
                /\ tasks'[i].pc # "done"
                /\ tasks[i].message \notin InFlight' => Proceeds(i)
       /\ \A i \in Live :
            tasks'[i].pc = "done" => event'.op = "cancelled"]_vars

\* the delays that bool() takes for false: the 0 stored for an error built
\* without a delay, and the numbers 0 and 0.0 passed as one
ZeroHints == {NoHint, [kind |-> "float", v |-> 0, tenths |-> 0]}

\* C33: when the WorkerAwaitError of an attempt carries no delay or a delay
\* of 0, the wait is the exponential default of that attempt, whatever the
\* errors of the earlier attempts of the message carried; and after such an
\* attempt an integer hint within the bounds is followed again.
C33_ZeroMeansNoHint ==
    [][/\ (call'.fn = "wait" /\ call' # call /\ call'.delay \in ZeroHints) =>
            /\ ~call'.result.raised
            /\ call'.result.value = Default(call'.attempt_number)
       /\ (/\ call.fn = "wait" /\ call.delay \in ZeroHints
           /\ call'.fn = "wait" /\ call' # call
           /\ call'.delay.kind = "int" /\ call'.delay.v \in Asked \ {0}) =>
            /\ call'.attempt_number = call.attempt_number + 1
            /\ call'.result.value = call'.delay.v]_vars

C33_Witness ==
    /\ Waited
    /\ call.delay = [kind |-> "float", v |-> 0, tenths |-> 0]
    /\ call.attempt_number = 4
    /\ call.result.value = MIN_RETRY_AFTER + RETRY_BASE ^ 4

\* this step is a failure event of a delivery loop: operate raised and the
\* loop let go of the message, or a cancellation reached a loop that had
\* entered its body
Fails ==
    \/ /\ event'.op = "operate" /\ event'.res # "return"
       /\ InFlight' # InFlight \/ Live' # Live
       /\ \E i \in TaskIds : tasks[i].pc = "operate" /\ tasks'[i] # tasks[i]
    \/ event'.op = "cancelled" /\ event'.res # "new"

Stopped == task = None \/ done(task)

\* C35: activate succeeds whenever is_running is false, on a channel without
\* a delivery task and on a channel whose delivery task has finished: it can
\* be called in every such state, it raises nothing, and afterwards
\* is_running is true with a new delivery task.
C35_StoppedCanRestart ==
    /\ [](~is_running <=> Stopped)
    /\ []((Stopped /\ \E i \in TaskIds : i = task \/ tasks[i].pc = "absent") =>
            ENABLED (activate /\ event'.res = ""))
    /\ [][(event'.op = "activate" /\ Stopped) =>
            /\ event'.res = ""
            /\ is_running'
            /\ task' # None /\ tasks'[task'].pc = "new"
            /\ task # None => tasks[task].pc = "done"]_vars

C35_Witness ==
    /\ event = [op |-> "activate", res |-> ""]
    /\ is_running
    /\ accepted = MaxMessages
    /\ Len(order) = 2
    /\ Live = {task}
    /\ queue # <<>>

\* C37: the cancellation of a loop of an earlier activation that arrives
\* while the channel is running again changes neither the counters nor
\* last_error of the restarted channel.
C37_NoStaleWrite ==
    [][(event'.op = "cancelled" /\ is_running) =>
          /\ messages_send' = messages_send
          /\ messages_rejected' = messages_rejected
          /\ last_error' = last_error]_vars

\* C38: deactivate removes nothing from the queue, and neither does the
\* cancellation, wherever it reaches the loop: it loses at most the one
\* message the cancelled loop holds.  A queued message leaves the queue only
\* from its head, into the first attempt of the loop of the current
\* activation, so that the backlog a deactivate leaves is delivered in its
\* order after a later activate.
C38_DeactivateKeepsBacklog ==
    [][/\ event'.op = "deactivate" =>
            queue' = queue /\ InFlight' = InFlight
       /\ event'.op = "cancelled" =>
            /\ queue' = queue
            /\ \E i \in TaskIds :
                  /\ tasks[i].must_cancel
                  /\ Leaving \subseteq {tasks[i].message}
       /\ (\E k \in 1..Len(queue) :
              \A j \in 1..Len(queue') : queue'[j] # queue[k]) =>
            /\ queue' = Tail(queue)
            /\ task' # None /\ task' = task
            /\ tasks'[task'].pc = "operate"
            /\ tasks'[task'].attempt = 1
            /\ tasks'[task'].message = Head(queue)]_vars

C38_Witness ==
    /\ queue = <<3>>
    /\ task # None
    /\ tasks[task].pc = "operate" /\ tasks[task].message = 2
    /\ \E i \in TaskIds :
          /\ tasks[i].must_cancel
          /\ tasks[i].pc = "operate" /\ tasks[i].message = 1

\* VirtualChannel.get_state
get_state == [was_send |-> messages_send, was_rejected |-> messages_rejected,
              in_queue |-> Len(queue)]

\* every accepted message is counted once: as sent, as rejected, as queued
\* or as the one message in flight; no cancelled loop is left
Conserved ==
    /\ accepted = get_state.was_send + get_state.was_rejected
                  + get_state.in_queue + Cardinality(InFlight)
    /\ Cardinality(InFlight) <= 1
    /\ \A i \in TaskIds : ~tasks[i].must_cancel

\* this step stops the delivery task, or activates the channel again after
\* it counted messages
Restarts ==
    \/ event'.op = "deactivate" /\ task # None
    \/ /\ event' = [op |-> "activate", res |-> ""]
       /\ messages_send # 0 \/ messages_rejected # 0

\* C39: accepted = sent + rejected + in_queue + in-flight, with in-flight 0
\* or 1 and in_queue as get_state reports it, holds when the channel is
\* built and is kept by every step that neither deactivates a channel with
\* a delivery task nor activates it again after it counted messages; so it
\* holds in every state of a channel activated once and not deactivated.
C39_MessageConservation ==
    /\ Conserved
    /\ [][(Conserved /\ ~Restarts) => Conserved']_vars

C39_Witness ==
    /\ Conserved
    /\ accepted = MaxMessages
    /\ get_state = [was_send |-> 1, was_rejected |-> 1, in_queue |-> 0]
    /\ is_running
    /\ tasks[task].pc = "sleep"

\* the messages accepted so far that are queued or held by a loop
Outstanding == {m \in 1..accepted : m \notin Settled}

\* C40: while the channel stays running, every message accepted into its
\* queue is eventually taken and settled, when the event loop runs every
\* delivery task that can take a step (each operate call ends, each sleep
\* ends): from every state with an accepted message that is not settled, a
\* state is reached where every message accepted by then is settled, or
\* where the channel is not running.
C40_DeliveryProgress ==
    (Outstanding # {}) ~> (Outstanding = {} \/ ~is_running)

C40_Witness ==
    /\ is_running
    /\ Settled = Messages
    /\ messages_send + messages_rejected = MaxMessages
    /\ \A i \in TaskIds : ~tasks[i].must_cancel

\* what channel c shows of itself: the messages on its queue, its counters,
\* its last_error and whether it is running
View(c) ==
    [in_queue |-> queues[queue_of(c)],
     was_send |-> channels[c].messages_send,
     was_rejected |-> channels[c].messages_rejected,
     last_error |-> channels[c].last_error,
     is_running |-> channels[c].task \notin {"None", "done"}]

\* C36: a step of one channel (an admission into it, a step of its delivery
\* loop, the end of its loop by an unknown exception or by a cancellation,
\* its activate, its deactivate) leaves the queue, the counters, last_error
\* and the running status of every other channel as they were.
C36_ChannelsIndependent ==
    [][\A c \in Collection :
          channels'[c] # channels[c] =>
              \A d \in Collection \ {c} :
                  /\ View(d)' = View(d)
                  /\ channels'[d] = channels[d]]_vars

C36_Witness ==
    /\ View("TestChannel") =
          [in_queue |-> <<2>>, was_send |-> 0, was_rejected |-> 1,
           last_error |-> "Exception", is_running |-> FALSE]
    /\ View("OtherChannel") =
          [in_queue |-> <<>>, was_send |-> 2, was_rejected |-> 0,
           last_error |-> "None", is_running |-> TRUE]
====
